---- MODULE Spec2Model ----
(***************************************************************************)
(* Sky prototype (Hosek-Wilkie): the sky radiance coefficient solver of    *)
(* src/main.rs (recalc_sun, evaluate, evaluate_spline, hosek_wilkie), the  *)
(* main loop that drives it, the Input of src/input.rs and the Camera of   *)
(* src/camera.rs.                                                          *)
(*                                                                         *)
(* Numbers.  An f32 is modelled as a fixed-point integer: the f32 value x  *)
(* is the integer x * One.  Products and quotients are rescaled and        *)
(* rounded toward zero (FMul, FDiv), in the order the code multiplies, so  *)
(* that x * 1.0 = x, x * 0.0 = 0, x + 0.0 = x hold as they do in f32, and  *)
(* every other product carries a rounding error of one unit, as an f32     *)
(* product carries one of half an ulp.                                     *)
(***************************************************************************)
EXTENDS Integers, Sequences, FiniteSets, TLC

\* ------------------------------------------------------------- f32 --------

\* The f32 value 1.0.
One == 10 * 100

\* f32::consts::FRAC_PI_2 (1.5707964), to the model's precision.
FRAC_PI_2 == 1571

Abs(x) == IF x < 0 THEN -x ELSE x

\* Integer quotient rounded toward zero.
Quot(a, b) ==
  IF (a >= 0) = (b > 0) THEN Abs(a) \div Abs(b) ELSE -(Abs(a) \div Abs(b))

\* f32 a * b and a / b.
FMul(a, b) == Quot(a * b, One)
FDiv(a, b) == Quot(a * One, b)

\* f32 a % b: the remainder of the division rounded toward zero, which has
\* the sign of a.
FRem(a, b) == a - b * Quot(a, b)

\* f32::max and f32::min.
FMax(a, b) == IF a < b THEN b ELSE a
FMin(a, b) == IF b < a THEN b ELSE a

\* f32::powi: x multiplied n times.
RECURSIVE powi(_, _)
powi(x, n) == IF n = 0 THEN One ELSE FMul(powi(x, n - 1), x)

\* sin on [0, pi/2]: the Taylor polynomial to x^11, by Horner's rule, worked
\* at ten times the precision and rounded to the nearest value.
SinQ(x) ==
  LET w  == 10 * One
      xw == 10 * x
      x2 == (xw * xw) \div w
      t5 == w - x2 \div 110
      t4 == w - ((x2 * t5) \div w) \div 72
      t3 == w - ((x2 * t4) \div w) \div 42
      t2 == w - ((x2 * t3) \div w) \div 20
      t1 == w - ((x2 * t2) \div w) \div 6
  IN  ((xw * t1) \div w + 5) \div 10

\* f32::sin: the argument reduced to a quarter turn.
Sin(x) ==
  LET r == x % (4 * FRAC_PI_2)
  IN  IF r <= FRAC_PI_2 THEN SinQ(r)
      ELSE IF r <= 2 * FRAC_PI_2 THEN SinQ(2 * FRAC_PI_2 - r)
      ELSE IF r <= 3 * FRAC_PI_2 THEN -SinQ(r - 2 * FRAC_PI_2)
      ELSE -SinQ(4 * FRAC_PI_2 - r)

\* f32::cos.
Cos(x) == Sin(x + FRAC_PI_2)

\* asin on [0, 1]: the largest angle of [lo, hi] whose sine is at most c,
\* by bisection (sin is increasing on [0, pi/2]).
RECURSIVE AsinBisect(_, _, _)
AsinBisect(c, lo, hi) ==
  IF hi - lo <= 1
  THEN IF SinQ(hi) <= c THEN hi ELSE lo
  ELSE LET mid == (lo + hi) \div 2
       IN  IF SinQ(mid) <= c THEN AsinBisect(c, mid, hi)
           ELSE AsinBisect(c, lo, mid)

\* f32::acos on [-1, 1]: pi/2 - asin(c), asin odd.
Acos(c) ==
  IF c >= 0 THEN FRAC_PI_2 - AsinBisect(c, 0, FRAC_PI_2)
  ELSE FRAC_PI_2 + AsinBisect(-c, 0, FRAC_PI_2)

\* The largest r of [lo, hi] with r^3 <= n.
RECURSIVE CbrtBisect(_, _, _)
CbrtBisect(n, lo, hi) ==
  IF hi - lo <= 1
  THEN IF hi * hi * hi <= n THEN hi ELSE lo
  ELSE LET mid == (lo + hi) \div 2
       IN  IF mid * mid * mid <= n THEN CbrtBisect(n, mid, hi)
           ELSE CbrtBisect(n, lo, mid)

\* f32::powf(1.0 / 3.0) on [0, 1]: the cube root.
Cbrt(x) == CbrtBisect(x * One * One, 0, One)

\* The largest r of [lo, hi] with r^2 <= n.
RECURSIVE SqrtBisect(_, _, _)
SqrtBisect(n, lo, hi) ==
  IF hi - lo <= 1
  THEN IF hi * hi <= n THEN hi ELSE lo
  ELSE LET mid == (lo + hi) \div 2
       IN  IF mid * mid <= n THEN SqrtBisect(n, mid, hi)
           ELSE SqrtBisect(n, lo, mid)

\* f32::sqrt of x >= 0.
Sqrt(x) == SqrtBisect(x * One, 0, One + x)

\* f32::powf(1.5) of a base >= 0: x * sqrt(x).
Powf15(x) == FMul(x, Sqrt(x))

\* f32::exp of x <= 0: e^-1 times itself for the whole part, the Taylor
\* polynomial for the rest; below e^-8 the value rounds to 0.
RECURSIVE Exp(_)
Exp(x) ==
  IF x < -8 * One THEN 0
  ELSE IF x < -One THEN FMul(Exp(x + One), 368)
  ELSE LET t6 == One + Quot(x, 6)
           t5 == One + Quot(FMul(x, t6), 5)
           t4 == One + Quot(FMul(x, t5), 4)
           t3 == One + Quot(FMul(x, t4), 3)
           t2 == One + Quot(FMul(x, t3), 2)
       IN  One + FMul(x, t2)

\* ------------------------------------------------------- the tables -----

\* The order of the nine coefficient slots of a control point in
\* DATASETS_RGB: A,B,C,D,E,F,G,I,H.
SlotOrder == <<"A", "B", "C", "D", "E", "F", "G", "I", "H">>

\* The letter of the coefficient at index idx of DATASETS_RGB[i], laid out
\* [albedo(2)][turbidity(10)][controlPoint(6)][slot(9)].
SlotLetter(idx) == SlotOrder[(idx % 9) + 1]

\* The range [lo, lo + width) each letter's entries lie in.
SlotRange ==
  [A |-> <<-1000, 500>>, B |-> <<-600, 500>>,  C |-> <<500, 4500>>,
   D |-> <<0, 3000>>,    E |-> <<-8000, 7000>>, F |-> <<0, 1500>>,
   G |-> <<0, 500>>,     I |-> <<1000, 4000>>,  H |-> <<200, 600>>]

\* hosek::DATASETS_RGB[i][idx]: the entries differ from index to index and
\* from channel to channel.
DATASETS_RGB(i, idx) ==
  LET r == SlotRange[SlotLetter(idx)]
  IN  r[1] + (((idx \div 9) * 37 + (idx % 9) * 11 + i * 101 + 13) % r[2])

\* hosek::DATASETS_RGB_RAD[i][idx].
DATASETS_RGB_RAD(i, idx) == One + ((idx * 53 + i * 17 + 7) % (4 * One))

\* A slice &table[i][off ..]: the table, the channel and the offset of its
\* first element.
SliceRGB(i, off) == [table |-> "DATASETS_RGB", channel |-> i, off |-> off]
SliceRAD(i) == [table |-> "DATASETS_RGB_RAD", channel |-> i, off |-> 0]

\* The length of DATASETS_RGB[i], of shape [2][10][6][9], and of
\* DATASETS_RGB_RAD[i], of shape [2][10][6].
TableLen(table) ==
  IF table = "DATASETS_RGB" THEN 2 * 10 * 6 * 9 ELSE 2 * 10 * 6

\* dataset.len()
SliceLen(dataset) ==
  IF dataset.table = "local" THEN Cardinality(DOMAIN dataset.data) - dataset.off
  ELSE TableLen(dataset.table) - dataset.off

\* dataset[j]
At(dataset, j) ==
  IF dataset.table = "DATASETS_RGB"
  THEN DATASETS_RGB(dataset.channel, dataset.off + j)
  ELSE IF dataset.table = "DATASETS_RGB_RAD"
  THEN DATASETS_RGB_RAD(dataset.channel, dataset.off + j)
  ELSE dataset.data[dataset.off + j]

\* ------------------------------------------------------- the solver -----

clamp(value, lo, hi) ==
  IF value < lo THEN lo ELSE IF value > hi THEN hi ELSE value

min(value, lo) == IF value < lo THEN value ELSE lo

\* turbidity as usize: the whole part, rounded toward zero; a negative value
\* gives 0.
AsUsize(x) == IF x < 0 THEN 0 ELSE x \div One

\* evaluate_spline with the fourth control point read at 2 * stride.
evaluate_spline_SameIndex(dataset, start, stride, value) ==
  LET P(k) == At(dataset, start + k * stride)
      u == One - value
  IN  FMul(FMul(1 * One, powi(u, 5)), P(0)) +
      FMul(FMul(FMul(5 * One, powi(u, 4)), powi(value, 1)), P(1)) +
      FMul(FMul(FMul(10 * One, powi(u, 3)), powi(value, 2)), P(2)) +
      FMul(FMul(FMul(10 * One, powi(u, 2)), powi(value, 3)), P(2)) +
      FMul(FMul(FMul(5 * One, powi(u, 1)), powi(value, 4)), P(4)) +
      FMul(FMul(1 * One, powi(value, 5)), P(5))

\* The indices evaluate_spline reads: start + k * stride, k = 0..5.
SplineIndex(start, stride, k) == start + k * stride

evaluate_spline(dataset, start, stride, value) ==
  LET P(k) == At(dataset, SplineIndex(start, stride, k))
      u == One - value
  IN  FMul(FMul(1 * One, powi(u, 5)), P(0)) +
      FMul(FMul(FMul(5 * One, powi(u, 4)), powi(value, 1)), P(1)) +
      FMul(FMul(FMul(10 * One, powi(u, 3)), powi(value, 2)), P(2)) +
      FMul(FMul(FMul(10 * One, powi(u, 2)), powi(value, 3)), P(3)) +
      FMul(FMul(FMul(5 * One, powi(u, 1)), powi(value, 4)), P(4)) +
      FMul(FMul(1 * One, powi(value, 5)), P(5))

\* evaluate's elevationK
ElevationK(sun_theta) ==
  Cbrt(FMax(One - FDiv(sun_theta, FRAC_PI_2), 0))

\* evaluate's turbidity0, turbidity1 (band numbers) and turbidityK
\* turbidity0 without the clamp.
Turbidity0_NoClamp(turbidity) == AsUsize(turbidity)

Turbidity0(turbidity) == clamp(AsUsize(turbidity), 1, 10)
\* turbidity1 without the min.
Turbidity1_NoMin(turbidity) == Turbidity0(turbidity) + 1

Turbidity1(turbidity) == min(Turbidity0(turbidity) + 1, 10)

\* turbidityK measured from the upper band.
TurbidityK_FromUpper(turbidity) ==
  clamp(Turbidity1(turbidity) * One - turbidity, 0, One)

TurbidityK(turbidity) ==
  clamp(turbidity - Turbidity0(turbidity) * One, 0, One)

\* The start index with the albedo-1 table one band after the albedo-0 one.
SplineStart_ShortAlbedo(stride, a, t) ==
  LET datasetA0 == 0
      datasetA1 == stride * 6
  IN  (IF a = 0 THEN datasetA0 ELSE datasetA1) + stride * 6 * (t - 1)

\* The start index of the spline of albedo table a (0 or 1) and band t.
SplineStart(stride, a, t) ==
  LET datasetA0 == 0
      datasetA1 == stride * 6 * 10
  IN  (IF a = 0 THEN datasetA0 ELSE datasetA1) + stride * 6 * (t - 1)

\* The blend with the albedo weights exchanged.
Blend_AlbedoSwapped(a0t0, a1t0, a0t1, a1t1, albedo, turbidityK) ==
  FMul(FMul(a0t0, albedo), One - turbidityK) +
  FMul(FMul(a1t0, One - albedo), One - turbidityK) +
  FMul(FMul(a0t1, albedo), turbidityK) +
  FMul(FMul(a1t1, One - albedo), turbidityK)

\* evaluate's result: the four splines weighted by albedo and turbidityK.
Blend(a0t0, a1t0, a0t1, a1t1, albedo, turbidityK) ==
  FMul(FMul(a0t0, One - albedo), One - turbidityK) +
  FMul(FMul(a1t0, albedo), One - turbidityK) +
  FMul(FMul(a0t1, One - albedo), turbidityK) +
  FMul(FMul(a1t1, albedo), turbidityK)

evaluate(dataset, stride, turbidity, albedo, sun_theta) ==
  LET elevationK == ElevationK(sun_theta)
      turbidity0 == Turbidity0(turbidity)
      turbidity1 == Turbidity1(turbidity)
      turbidityK == TurbidityK(turbidity)
      a0t0 == evaluate_spline(dataset, SplineStart(stride, 0, turbidity0), stride, elevationK)
      a1t0 == evaluate_spline(dataset, SplineStart(stride, 1, turbidity0), stride, elevationK)
      a0t1 == evaluate_spline(dataset, SplineStart(stride, 0, turbidity1), stride, elevationK)
      a1t1 == evaluate_spline(dataset, SplineStart(stride, 1, turbidity1), stride, elevationK)
  IN  Blend(a0t0, a1t0, a0t1, a1t1, albedo, turbidityK)

\* The indices of the slice that evaluate reads: four splines of six control
\* points.
EvaluateReads(stride, turbidity) ==
  { SplineIndex(SplineStart(stride, a, t), stride, k) :
      a \in 0..1, t \in {Turbidity0(turbidity), Turbidity1(turbidity)}, k \in 0..5 }

\* const TURBIDITY: f32 = 4.0 and const ALBEDO: [f32; 3] = [0.1, 0.1, 0.1]
TURBIDITY == 4 * One
ALBEDO == [i \in 0..2 |-> One \div 10]

\* sun_dir with the angle itself for y.
SunDir_Angle(sun_pos) ==
  [x |-> FMul(Cos(sun_pos.x), Sin(sun_pos.y)),
   y |-> sun_pos.x,
   z |-> FMul(Cos(sun_pos.x), Cos(sun_pos.y))]

\* recalc_sun's sun_dir: (0, 0, 1) turned by sun_pos.x about (-1, 0, 0), then
\* by sun_pos.y about (0, 1, 0).
SunDir(sun_pos) ==
  [x |-> FMul(Cos(sun_pos.x), Sin(sun_pos.y)),
   y |-> Sin(sun_pos.x),
   z |-> FMul(Cos(sun_pos.x), Cos(sun_pos.y))]

\* sun_theta of |y| in place of y clamped to [0, 1].
SunTheta_Abs(sun_dir) == Acos(Abs(sun_dir.y))

\* recalc_sun's sun_theta
SunTheta(sun_dir) == Acos(clamp(sun_dir.y, 0, One))

\* The offsets in the order of the slots.
ParamOffset_InOrder(j) == j

\* The offset of the slice of DATASETS_RGB[i] that params[j] is evaluated
\* from, j = 0..8.
ParamOffset(j) == <<0, 1, 2, 3, 4, 5, 6, 8, 7>>[j + 1]

\* The params as evaluated, before params[9] is normalised.
EvaluateParams(sun_theta) ==
  [j \in 0..9 |-> [i \in 0..2 |->
     IF j < 9
     THEN evaluate(SliceRGB(i, ParamOffset(j)), 9, TURBIDITY, ALBEDO[i], sun_theta)
     ELSE evaluate(SliceRAD(i), 1, TURBIDITY, ALBEDO[i], sun_theta)]]

\* The table indices read for params[j], the same in every channel.
ParamReads(j) ==
  IF j < 9
  THEN { ParamOffset(j) + r : r \in EvaluateReads(9, TURBIDITY) }
  ELSE EvaluateReads(1, TURBIDITY)

\* The slot of params that hosek_wilkie takes each letter from.
HWSlot ==
  [A |-> 0, B |-> 1, C |-> 2, D |-> 3, E |-> 4, F |-> 5, G |-> 6, H |-> 7, I |-> 8]

\* hosek_wilkie's divisor of B without the 0.01.
ThetaDivisor_NoEpsilon(cos_theta) == cos_theta

\* hosek_wilkie's divisor of B: cos_theta + 0.01
ThetaDivisor(cos_theta) == cos_theta + One \div 100

\* The base of the power chi is divided by: H * H + 1.0 - 2.0 * cos_gamma * H
ChiBase(H, cos_gamma) ==
  (FMul(H, H) + One) - FMul(FMul(2 * One, cos_gamma), H)

\* chi's divisor: powv(base, 1.5)
ChiDivisor(H, cos_gamma) == Powf15(ChiBase(H, cos_gamma))

\* hosek_wilkie, channel by channel.  exp is taken of arguments <= 0 only (B
\* and E * gamma are never positive with the tables above).
hosek_wilkie(cos_theta, gamma, cos_gamma, params) ==
  [i \in 0..2 |->
     LET A == params[HWSlot.A][i]
         B == params[HWSlot.B][i]
         C == params[HWSlot.C][i]
         D == params[HWSlot.D][i]
         E == params[HWSlot.E][i]
         F == params[HWSlot.F][i]
         G == params[HWSlot.G][i]
         H == params[HWSlot.H][i]
         I == params[HWSlot.I][i]
         cg2 == FMul(cos_gamma, cos_gamma)
         chi == FDiv(One + cg2, ChiDivisor(H, cos_gamma))
     IN  FMul(FMul(A, Exp(FDiv(B, ThetaDivisor(cos_theta)))) + One,
              C + FMul(D, Exp(FMul(E, gamma))) + FMul(F, cg2) + FMul(G, chi)
                + FMul(I, Sqrt(FMax(cos_theta, 0))))]

\* Vector3::dot
Dot(a, b) == FMul(a[0], b[0]) + FMul(a[1], b[1]) + FMul(a[2], b[2])

\* The luminance weights (0.2126, 0.7152, 0.0722).
Luma == [i \in 0..2 |-> <<213, 715, 72>>[i + 1]]

\* recalc_sun's sun_amount after % 4.0
SunAmountMod(sun_dir) == FRem(FDiv(sun_dir.y, FRAC_PI_2), 4 * One)

\* The folding with 1 - sun_amount for the values above 1.
Fold_WrongMirror(sun_amount) ==
  LET s1 == IF sun_amount > 2 * One THEN 0 ELSE sun_amount
  IN  IF s1 > One THEN One - s1
      ELSE IF s1 < -One THEN -2 * One - s1
      ELSE s1

\* The folding without its first branch.
Fold_NoNight(sun_amount) ==
  IF sun_amount > One THEN 2 * One - sun_amount
  ELSE IF sun_amount < -One THEN -2 * One - sun_amount
  ELSE sun_amount

\* recalc_sun's folding of sun_amount
Fold(sun_amount) ==
  LET s1 == IF sun_amount > 2 * One THEN 0 ELSE sun_amount
  IN  IF s1 > One THEN 2 * One - s1
      ELSE IF s1 < -One THEN -2 * One - s1
      ELSE s1

\* recalc_sun's normalized_sun_y = 0.6 + 0.45 * sun_amount
NormalizedSunY(sun_amount) == 6 * (One \div 10) + FMul(45 * (One \div 100), sun_amount)

\* recalc_sun from `let S` on, given its sun_dir, its sun_theta and the params
\* as evaluated: params[9] divided by the luminance of S and scaled by
\* normalized_sun_y.
Normalize(sun_dir, sun_theta, params0) ==
  LET hw == hosek_wilkie(Cos(sun_theta), 0, One, params0)
      SS == [i \in 0..2 |-> FMul(hw[i], params0[9][i])]
      lum == Dot(SS, Luma)
      normalized_sun_y == NormalizedSunY(Fold(SunAmountMod(sun_dir)))
  IN  [params0 EXCEPT ![9] =
         [i \in 0..2 |-> FMul(FDiv(params0[9][i], lum), normalized_sun_y)]]

\* ------------------------------------------------------- bounds ---------

\* The sun is turned at most this many steps of 0.01 rad either way.
MaxSunSteps == 330

\* Turbidities tried: quarters from -2.0 to MaxTurbidityStep / 4.
MaxTurbidityStep == 48

\* Sun zenith angles tried: quarters of a radian up to MaxThetaStep / 4.
MaxThetaStep == 7

\* Values reduced mod 4 and folded: fiftieths up to MaxFoldStep / 50.
MaxFoldStep == 260

\* cos_theta tried: [0, 1] cut into MaxCosThetaStep parts.
MaxCosThetaStep == 10

\* cos_gamma tried: [-1, 1] cut into MaxCosGammaStep parts.
MaxCosGammaStep == 8

\* The camera is followed while its horizontal angle is within MaxTurns turns
\* of 0 and each coordinate of its position within MaxPosition of 0.
MaxTurns == 1
MaxPosition == 100

\* ------------------------------------------------------- the state ------

VARIABLES
  pc,                \* where main is: "start", or "loop" (its event loop)
  keys_down,         \* Input::keys_down, for the keys Up and Down
  window_open,       \* Input::window_open
  sun,               \* main's sun: Vector2
  sun_dir,           \* main's sun_dir, the first value recalc_sun returned
  params,            \* main's params, the second value recalc_sun returned
  sun_theta,         \* recalc_sun's sun_theta in its last call
  sun_amount,        \* recalc_sun's sun_amount after % 4.0 in its last call
  normalized_sun_y,  \* recalc_sun's normalized_sun_y in its last call
  reads,             \* the table indices read for each params[j] in that call
  ev,                \* a call of evaluate: its arguments and its result
  sp,                \* a call of evaluate_spline: its arguments and its result
  fd,                \* a value reduced mod 4, folded and scaled as in recalc_sun
  hw,                \* a call of hosek_wilkie: its arguments and its result
  mouse_buttons_down,    \* Input::mouse_buttons_down
  mouse_buttons_pressed, \* Input::mouse_buttons_pressed
  mouse_delta,       \* Input::mouse_delta_x and mouse_delta_y
  since,             \* for each button, what Input last saw of it: "new",
                     \* "press", "release" or "update"
  camera,            \* the Camera: its angles, position and axes
  called             \* the last call on the Camera: its name and the angles
                     \* before it

mainVars ==
  <<pc, keys_down, window_open, sun, sun_dir, params, sun_theta, sun_amount,
    normalized_sun_y, reads>>

mouseVars == <<mouse_buttons_down, mouse_buttons_pressed, mouse_delta, since>>

cameraVars == <<camera, called>>

vars == <<mainVars, ev, sp, fd, hw, mouseVars, cameraVars>>

Keys == {"Up", "Down"}

NoCall == [done |-> FALSE, none |-> TRUE]

\* ------------------------------------------------------- Input ----------

\* const MOUSE_BUTTONS_COUNT: usize = 3
MOUSE_BUTTONS_COUNT == 3

\* glutin::MouseButton: the three buttons Input tracks and any other one.
GlutinButtons == {"Left", "Right", "Middle", "Other"}

\* MouseButton::from_glutin(button) as usize: the index of the button, if it
\* is one of Left, Right, Middle (the Option as a set of at most one index).
FromGlutin(glutin_button) ==
  IF glutin_button = "Left" THEN {0}
  ELSE IF glutin_button = "Right" THEN {1}
  ELSE IF glutin_button = "Middle" THEN {2}
  ELSE {}

\* The window: width 900 and height 620 points, scale factor 1.
WIDTH == 900
HEIGHT == 620

\* Input::was_mouse_pressed(button), button as usize = index
was_mouse_pressed(index) ==
  IF index < MOUSE_BUTTONS_COUNT THEN mouse_buttons_pressed[index] ELSE FALSE

\* Input::is_mouse_down(button)
is_mouse_down(index) ==
  IF index < MOUSE_BUTTONS_COUNT THEN mouse_buttons_down[index] ELSE FALSE

\* Input::new: the mouse part
InputNew ==
  /\ mouse_buttons_down = [i \in 0..(MOUSE_BUTTONS_COUNT - 1) |-> FALSE]
  /\ mouse_buttons_pressed = [i \in 0..(MOUSE_BUTTONS_COUNT - 1) |-> FALSE]
  /\ mouse_delta = [x |-> 0, y |-> 0]
  /\ since = [i \in 0..(MOUSE_BUTTONS_COUNT - 1) |-> "new"]

\* Input::update's loop, up to the first button only.
ResetPressed_FirstOnly(pressed) ==
  [i \in DOMAIN pressed |-> IF i < 1 THEN FALSE ELSE pressed[i]]

\* Input::update's loop: for i in 0 .. MOUSE_BUTTONS_COUNT { pressed[i] = false }
ResetPressed(pressed) ==
  [i \in DOMAIN pressed |-> IF i < MOUSE_BUTTONS_COUNT THEN FALSE ELSE pressed[i]]

\* Input::handle_event of Event::Closed
InputClosed ==
  /\ window_open' = FALSE
  /\ UNCHANGED <<pc, keys_down, sun, sun_dir, params, sun_theta, sun_amount,
                 normalized_sun_y, reads, ev, sp, fd, hw, mouseVars, cameraVars>>

\* Input::handle_event of Event::KeyboardInput: Input::key
InputKey(key, is_down) ==
  /\ keys_down' = [keys_down EXCEPT ![key] = is_down]
  /\ UNCHANGED <<pc, window_open, sun, sun_dir, params, sun_theta, sun_amount,
                 normalized_sun_y, reads, ev, sp, fd, hw, mouseVars, cameraVars>>

\* Input::handle_event of Event::MouseMoved(x, y): Input::mouse_move, x and
\* y in points.
InputMouseMoved(x, y) ==
  /\ mouse_delta' = [x |-> (WIDTH \div 2) * One - x * One,
                     y |-> (HEIGHT \div 2) * One - y * One]
  /\ UNCHANGED <<mainVars, ev, sp, fd, hw, mouse_buttons_down,
                 mouse_buttons_pressed, since, cameraVars>>

\* Input::handle_event of Event::MouseInput(action, button): Input::mouse,
\* is_down = (action == Pressed).
InputMouse(glutin_button, is_down) ==
  /\ IF FromGlutin(glutin_button) # {}
     THEN \E index \in FromGlutin(glutin_button) :
            IF index < MOUSE_BUTTONS_COUNT
            THEN /\ mouse_buttons_down' = [mouse_buttons_down EXCEPT ![index] = is_down]
                 /\ mouse_buttons_pressed' = [mouse_buttons_pressed EXCEPT ![index] = is_down]
                 /\ since' = [since EXCEPT ![index] = IF is_down THEN "press" ELSE "release"]
            ELSE UNCHANGED <<mouse_buttons_down, mouse_buttons_pressed, since>>
     ELSE UNCHANGED <<mouse_buttons_down, mouse_buttons_pressed, since>>
  /\ UNCHANGED <<mainVars, ev, sp, fd, hw, mouse_delta, cameraVars>>

\* Input::update
InputUpdate ==
  /\ mouse_delta' = [x |-> 0, y |-> 0]
  /\ mouse_buttons_pressed' = ResetPressed(mouse_buttons_pressed)
  /\ since' = [i \in DOMAIN since |-> "update"]
  /\ UNCHANGED <<mainVars, ev, sp, fd, hw, mouse_buttons_down, cameraVars>>

\* ------------------------------------------------------- Camera ---------

\* const LOOK_SPEED: f32 = 0.0015, in ten-thousandths.
LOOK_SPEED == 15

\* const MOVE_SPEED: f32 = 0.1
MOVE_SPEED == One \div 10

\* f32::EPSILON: the distance from 1.0 to the next f32, one unit of the model.
EPSILON == 1

\* const MIN_ANGLE and MAX_ANGLE
MIN_ANGLE == -FRAC_PI_2 + EPSILON
MAX_ANGLE == FRAC_PI_2 - EPSILON

\* f32::consts::PI * 2.0
TWO_PI == 4 * FRAC_PI_2

\* f32 a * b for b >= 0, by the whole part and the fraction of b: the value
\* of FMul(a, b), with no intermediate product beyond the model's integers.
FMulWide(a, b) == a * (b \div One) + Quot(a * (b % One), One)

\* amount * delta * LOOK_SPEED
LookStep(amount, delta) == Quot(FMulWide(amount, delta) * LOOK_SPEED, 10 * One)

\* Vector3::cross
Cross(a, b) ==
  [x |-> FMul(a.y, b.z) - FMul(a.z, b.y),
   y |-> FMul(a.z, b.x) - FMul(a.x, b.z),
   z |-> FMul(a.x, b.y) - FMul(a.y, b.x)]

\* Camera::update_axes: forward, right and up from the two angles.
update_axes(c) ==
  LET forward == [x |-> FMul(Cos(c.vertical), Sin(c.horizontal)),
                  y |-> Sin(c.vertical),
                  z |-> FMul(Cos(c.vertical), Cos(c.horizontal))]
      right == [x |-> Sin(c.horizontal - FRAC_PI_2),
                y |-> 0,
                z |-> Cos(c.horizontal - FRAC_PI_2)]
  IN  [c EXCEPT !.forward = forward, !.right = right,
                !.up = Cross(right, forward)]

\* Camera::new (the matrices, which follow from these fields, are left out).
CameraNew ==
  update_axes([horizontal |-> FRAC_PI_2, vertical |-> 0,
               position |-> [x |-> 0, y |-> 0, z |-> 0],
               forward |-> [x |-> 0, y |-> 0, z |-> 0],
               right |-> [x |-> 0, y |-> 0, z |-> 0],
               up |-> [x |-> 0, y |-> 0, z |-> 0]])

\* look's vertical rotation without the clamping.
LookVertical_NoClamp(old, vertical, delta) == old + LookStep(vertical, delta)

\* look's vertical rotation: (old + step).max(MIN_ANGLE).min(MAX_ANGLE)
LookVertical(old, vertical, delta) ==
  FMin(FMax(old + LookStep(vertical, delta), MIN_ANGLE), MAX_ANGLE)

\* look's horizontal rotation: the step, then one turn added below 0.0 or
\* taken off above 2 pi.
LookHorizontal(old, horizontal, delta) ==
  LET h == old + LookStep(horizontal, delta)
  IN  IF h < 0 THEN h + TWO_PI
      ELSE IF h > TWO_PI THEN h - TWO_PI
      ELSE h

\* Camera::look(horizontal, vertical, delta)
look(c, horizontal, vertical, delta) ==
  update_axes([c EXCEPT !.vertical = LookVertical(c.vertical, vertical, delta),
                        !.horizontal = LookHorizontal(c.horizontal, horizontal, delta)])

\* The magnitude of the vector (x, 0, z).
Magnitude(x, z) == Sqrt(FMul(x, x) + FMul(z, z))

\* Vector3::new(x, 0.0, z).normalize() * amount * scale
WalkAlong(x, z, amount, scale) ==
  [x |-> FMul(FMul(FDiv(x, Magnitude(x, z)), amount), scale),
   y |-> 0,
   z |-> FMul(FMul(FDiv(z, Magnitude(x, z)), amount), scale)]

\* Camera::walk(x, y, z, delta): the position moved along right, up the y
\* axis and along forward.
walk(c, x, y, z, delta) ==
  LET scale == FMul(delta, MOVE_SPEED)
      dx == IF Abs(x) > EPSILON
            THEN WalkAlong(c.right.x, c.right.z, x, scale)
            ELSE [x |-> 0, y |-> 0, z |-> 0]
      dy == IF Abs(y) > EPSILON THEN FMul(y, scale) ELSE 0
      dz == IF Abs(z) > EPSILON
            THEN WalkAlong(c.forward.x, c.forward.z, z, scale)
            ELSE [x |-> 0, y |-> 0, z |-> 0]
  IN  [c EXCEPT !.position = [x |-> @.x + dx.x + dz.x,
                              y |-> @.y + dy,
                              z |-> @.z + dx.z + dz.z]]

\* ------------------------------------------------------- main -----------

\* recalc_sun(new_sun), and main keeping the pair it returns; with it the
\* locals sun_theta, sun_amount (after % 4.0) and normalized_sun_y, and the
\* table indices read.
recalc_sun(new_sun) ==
  \E sd \in {SunDir(new_sun)} :
  \E theta \in {SunTheta(sd)} :
  \E params0 \in {EvaluateParams(theta)} :
    /\ sun' = new_sun
    /\ sun_dir' = sd
    /\ sun_theta' = theta
    /\ params' = Normalize(sd, theta, params0)
    /\ sun_amount' = SunAmountMod(sd)
    /\ normalized_sun_y' = NormalizedSunY(Fold(SunAmountMod(sd)))
    /\ reads' = [j \in 0..9 |-> ParamReads(j)]

\* main before `let mut sun`: Camera::new and Input::new; nothing is computed
\* yet.
InitMain ==
  /\ pc = "start"
  /\ keys_down = [k \in Keys |-> FALSE]
  /\ window_open = TRUE
  /\ sun = [x |-> 0, y |-> 0]
  /\ sun_dir = [x |-> 0, y |-> 0, z |-> 0]
  /\ params = [j \in 0..9 |-> [i \in 0..2 |-> 0]]
  /\ sun_theta = 0
  /\ sun_amount = 0
  /\ normalized_sun_y = 0
  /\ reads = [j \in 0..9 |-> {}]
  /\ InputNew
  /\ camera = CameraNew
  /\ called = [name |-> "new", horizontal |-> 0, vertical |-> 0]

\* main: sun = (0, 0) and the first recalc_sun(sun), before the event loop.
Setup ==
  /\ pc = "start"
  /\ pc' = "loop"
  /\ recalc_sun([x |-> 0, y |-> 0])
  /\ UNCHANGED <<keys_down, window_open, ev, sp, fd, hw, mouseVars, cameraVars>>

\* Input::handle_event of a KeyboardInput event: Input::key.
HandleKey(key, is_down) ==
  /\ pc = "loop" /\ window_open
  /\ keys_down' = [keys_down EXCEPT ![key] = is_down]
  /\ UNCHANGED <<pc, window_open, sun, sun_dir, params, sun_theta, sun_amount,
                 normalized_sun_y, reads, ev, sp, fd, hw, mouseVars, cameraVars>>

\* Input::handle_event of a Closed event.
HandleClosed ==
  /\ pc = "loop" /\ window_open
  /\ window_open' = FALSE
  /\ UNCHANGED <<pc, keys_down, sun, sun_dir, params, sun_theta, sun_amount,
                 normalized_sun_y, reads, ev, sp, fd, hw, mouseVars, cameraVars>>

\* One turn of main's loop after the events: the sun is moved by the keys and
\* the sky recomputed.  player.update and input.update change nothing here:
\* Up and Down move no player, and the events of this loop (HandleKey,
\* HandleClosed) leave the mouse at rest.
Update ==
  /\ pc = "loop" /\ window_open
  /\ LET step == One \div 100
         new_sun == IF keys_down["Up"] THEN [sun EXCEPT !.x = @ - step]
                    ELSE IF keys_down["Down"] THEN [sun EXCEPT !.x = @ + step]
                    ELSE sun
     IN  /\ Abs(new_sun.x) <= MaxSunSteps * step
         /\ recalc_sun(new_sun)
  /\ UNCHANGED <<pc, keys_down, window_open, ev, sp, fd, hw, mouseVars, cameraVars>>

Init == InitMain /\ ev = NoCall /\ sp = NoCall /\ fd = NoCall /\ hw = NoCall

Next ==
  \/ Setup
  \/ \E key \in Keys, is_down \in BOOLEAN : HandleKey(key, is_down)
  \/ HandleClosed
  \/ Update

Spec == Init /\ [][Next]_vars

\* ------------------------------------------- evaluate, call by call -----

Turbidities == { k * (One \div 4) : k \in -8..MaxTurbidityStep }

Albedos == { -(One \div 4), 0, One \div 10, One \div 2, One, One + One \div 4 }

SunThetas == { k * (One \div 4) : k \in 0..MaxThetaStep } \cup {FRAC_PI_2}

\* The ten (dataset, stride) pairs recalc_sun passes for channel i.
EvaluateArgs(i, j) ==
  IF j < 9 THEN [dataset |-> SliceRGB(i, ParamOffset(j)), stride |-> 9]
  ELSE [dataset |-> SliceRAD(i), stride |-> 1]

InitEvaluate ==
  /\ InitMain /\ sp = NoCall /\ fd = NoCall /\ hw = NoCall
  /\ \E i \in 0..2, j \in 0..9, turbidity \in Turbidities, albedo \in Albedos,
        theta \in SunThetas :
       ev = [done |-> FALSE, slot |-> j,
             dataset |-> EvaluateArgs(i, j).dataset,
             stride |-> EvaluateArgs(i, j).stride,
             turbidity |-> turbidity, albedo |-> albedo, sun_theta |-> theta]

\* The call evaluate(dataset, stride, turbidity, albedo, sun_theta): its
\* result, its locals and the indices of the slice it reads.
EvaluateCall ==
  /\ ~ev.done
  /\ ev' = [done |-> TRUE, slot |-> ev.slot,
            dataset |-> ev.dataset, stride |-> ev.stride,
            turbidity |-> ev.turbidity, albedo |-> ev.albedo,
            sun_theta |-> ev.sun_theta,
            elevationK |-> ElevationK(ev.sun_theta),
            turbidity0 |-> Turbidity0(ev.turbidity),
            turbidity1 |-> Turbidity1(ev.turbidity),
            turbidityK |-> TurbidityK(ev.turbidity),
            reads |-> EvaluateReads(ev.stride, ev.turbidity),
            result |-> evaluate(ev.dataset, ev.stride, ev.turbidity, ev.albedo,
                                ev.sun_theta)]
  /\ UNCHANGED <<mainVars, sp, fd, hw, mouseVars, cameraVars>>

SpecEvaluate == InitEvaluate /\ [][EvaluateCall]_vars

\* ------------------------------------ evaluate_spline, call by call -----

ControlValues == { -(One + One \div 2), 0, 2 * One }

\* A value no control point has.
Pad == 7 * One + 7

\* A slice holding the control points P at start + k * stride, k = 0..5.
LocalSlice(P, start, stride) ==
  [table |-> "local", channel |-> 0, off |-> 0,
   data |-> [j \in 0..(start + 5 * stride) |->
               IF j >= start /\ (j - start) % stride = 0
               THEN P[(j - start) \div stride] ELSE Pad]]

InitSpline ==
  /\ InitMain /\ ev = NoCall /\ fd = NoCall /\ hw = NoCall
  /\ \E P \in [0..5 -> ControlValues], k \in 0..8,
        ss \in {<<0, 1>>, <<1, 2>>, <<3, 9>>} :
       sp = [done |-> FALSE, points |-> P,
             dataset |-> LocalSlice(P, ss[1], ss[2]),
             start |-> ss[1], stride |-> ss[2], value |-> k * (One \div 8)]

\* The call evaluate_spline(dataset, start, stride, value).
SplineCall ==
  /\ ~sp.done
  /\ sp' = [done |-> TRUE, points |-> sp.points, dataset |-> sp.dataset,
            start |-> sp.start, stride |-> sp.stride, value |-> sp.value,
            result |-> evaluate_spline(sp.dataset, sp.start, sp.stride, sp.value)]
  /\ UNCHANGED <<mainVars, ev, fd, hw, mouseVars, cameraVars>>

SpecSpline == InitSpline /\ [][SplineCall]_vars

\* --------------------------------------- the folding, value by value ----

\* The distance of two neighbouring values tried: 0.02.
FoldGrid == One \div 50

InitFold ==
  /\ InitMain /\ ev = NoCall /\ sp = NoCall /\ hw = NoCall
  /\ \E k \in -MaxFoldStep..MaxFoldStep :
       fd = [done |-> FALSE, x |-> k * FoldGrid]

\* recalc_sun from `% 4.0` on, for a quotient x: the value reduced, folded and
\* scaled, and the scaled values of the two neighbours of the reduced value.
FoldCall ==
  /\ ~fd.done
  /\ LET s == FRem(fd.x, 4 * One)
     IN  fd' = [done |-> TRUE, x |-> fd.x,
                sun_amount |-> s,
                folded |-> Fold(s),
                normalized_sun_y |-> NormalizedSunY(Fold(s)),
                below |-> NormalizedSunY(Fold(s - FoldGrid)),
                above |-> NormalizedSunY(Fold(s + FoldGrid))]
  /\ UNCHANGED <<mainVars, ev, sp, hw, mouseVars, cameraVars>>

SpecFold == InitFold /\ [][FoldCall]_vars

\* ------------------------------------------ hosek_wilkie, call by call ---

\* The nine coefficients A..I that recalc_sun evaluates from DATASETS_RGB, for
\* a turbidity, an albedo and a sun angle.
Coefficients(turbidity, albedo, theta) ==
  [j \in 0..8 |-> [i \in 0..2 |->
     evaluate(SliceRGB(i, ParamOffset(j)), 9, turbidity, albedo, theta)]]

CosThetas == { (k * One) \div MaxCosThetaStep : k \in 0..MaxCosThetaStep }

CosGammas == { (2 * k * One) \div MaxCosGammaStep - One : k \in 0..MaxCosGammaStep }

InitHosekWilkie ==
  /\ InitMain /\ ev = NoCall /\ sp = NoCall /\ fd = NoCall
  /\ \E turbidity \in {One, TURBIDITY, 7 * One + One \div 2, 10 * One},
        albedo \in {0, One \div 10, One}, theta \in SunThetas :
     \E coefficients \in {Coefficients(turbidity, albedo, theta)} :
     \E cos_theta \in CosThetas, cos_gamma \in CosGammas :
       hw = [done |-> FALSE, cos_theta |-> cos_theta,
             gamma |-> Acos(cos_gamma), cos_gamma |-> cos_gamma,
             params |-> coefficients]

\* The call hosek_wilkie(cos_theta, gamma, cos_gamma, params): its two
\* divisors, the base of the power and its result.  A quotient by 0.0 is
\* infinite or NaN and the power 1.5 of a negative base is NaN: the call is
\* then not finite and its result no number of the model.
HosekWilkieCall ==
  /\ ~hw.done
  /\ \E divisor \in {ThetaDivisor(hw.cos_theta)} :
     \E base \in {[i \in 0..2 |-> ChiBase(hw.params[HWSlot.H][i], hw.cos_gamma)]} :
     \E power \in {[i \in 0..2 |-> ChiDivisor(hw.params[HWSlot.H][i], hw.cos_gamma)]} :
       hw' = [done |-> TRUE, cos_theta |-> hw.cos_theta, gamma |-> hw.gamma,
              cos_gamma |-> hw.cos_gamma, params |-> hw.params,
              theta_divisor |-> divisor, chi_base |-> base, chi_divisor |-> power,
              finite |->
                divisor # 0 /\ \A i \in 0..2 : base[i] >= 0 /\ power[i] # 0,
              result |->
                IF divisor # 0 /\ \A i \in 0..2 : base[i] >= 0 /\ power[i] # 0
                THEN hosek_wilkie(hw.cos_theta, hw.gamma, hw.cos_gamma, hw.params)
                ELSE [i \in 0..2 |-> "NaN"]]
  /\ UNCHANGED <<mainVars, ev, sp, fd, mouseVars, cameraVars>>

SpecHosekWilkie == InitHosekWilkie /\ [][HosekWilkieCall]_vars

\* ------------------------------------------------ Input, call by call ---

InitInput ==
  InitMain /\ ev = NoCall /\ sp = NoCall /\ fd = NoCall /\ hw = NoCall

NextInput ==
  \/ InputClosed
  \/ \E key \in Keys, is_down \in BOOLEAN : InputKey(key, is_down)
  \/ \E x \in {0, WIDTH \div 2, WIDTH}, y \in {0, HEIGHT \div 2, HEIGHT} :
       InputMouseMoved(x, y)
  \/ \E glutin_button \in GlutinButtons, is_down \in BOOLEAN :
       InputMouse(glutin_button, is_down)
  \/ InputUpdate

SpecInput == InitInput /\ [][NextInput]_vars

\* ----------------------------------------------- Camera, call by call ---

\* The amount that turns the camera a quarter turn at delta 1.0.
QuarterTurn == (FRAC_PI_2 * 10 * One) \div LOOK_SPEED + 1

HorizontalAmounts ==
  {0, QuarterTurn, -QuarterTurn, 6 * QuarterTurn, -6 * QuarterTurn}

VerticalAmounts == {0, 1100 * One, -1100 * One}

InitCamera ==
  InitMain /\ ev = NoCall /\ sp = NoCall /\ fd = NoCall /\ hw = NoCall

\* A call camera.look(horizontal, vertical, delta)
CameraLook ==
  /\ \E horizontal \in HorizontalAmounts, vertical \in VerticalAmounts,
        delta \in {One} :
       /\ camera' = look(camera, horizontal, vertical, delta)
       /\ called' = [name |-> "look", horizontal |-> camera.horizontal,
                     vertical |-> camera.vertical]
       /\ Abs(camera'.horizontal) <= MaxTurns * TWO_PI
  /\ UNCHANGED <<mainVars, ev, sp, fd, hw, mouseVars>>

\* A call camera.walk(x, y, z, delta), where the model's precision tells the
\* direction walked along.
CameraWalk ==
  /\ \E x \in {-One, 0, One}, y \in {-One, 0, One}, z \in {-One, 0, One},
        delta \in {One} :
       /\ x # 0 => Magnitude(camera.right.x, camera.right.z) # 0
       /\ z # 0 => Magnitude(camera.forward.x, camera.forward.z) # 0
       /\ camera' = walk(camera, x, y, z, delta)
       /\ called' = [name |-> "walk", horizontal |-> camera.horizontal,
                     vertical |-> camera.vertical]
       /\ Abs(camera'.position.x) <= MaxPosition
       /\ Abs(camera'.position.y) <= MaxPosition
       /\ Abs(camera'.position.z) <= MaxPosition
  /\ UNCHANGED <<mainVars, ev, sp, fd, hw, mouseVars>>

SpecCamera == InitCamera /\ [][CameraLook \/ CameraWalk]_vars

\* ------------------------------------------------------- the claims -----

\* C1: for every channel, the table indices read for the params slot that
\* hosek_wilkie takes a letter from all hold that letter: slots 0..6 are read
\* at slot offsets 0..6, slot 7 at offset 8 and slot 8 at offset 7, and H is
\* taken from slot 7 and I from slot 8.
C1_LettersMatch ==
  pc = "loop" =>
    /\ \A L \in DOMAIN HWSlot : \A idx \in reads[HWSlot[L]] : SlotLetter(idx) = L
    /\ \A j \in 0..8 : \A idx \in reads[j] :
         idx % 9 = (IF j = 7 THEN 8 ELSE IF j = 8 THEN 7 ELSE j)
    /\ HWSlot.H = 7 /\ HWSlot.I = 8

C1_Witness ==
  /\ pc = "loop" /\ sun.x > 0
  /\ \E idx \in reads[7] : SlotLetter(idx) = "H"
  /\ \E idx \in reads[8] : SlotLetter(idx) = "I"

\* The whole part of a fixed-point value, rounded down.
Floor(x) == x \div One

\* The value of the single band t of the call ev, blended by albedo alone.
BandValue(t) ==
  FMul(evaluate_spline(ev.dataset, SplineStart(ev.stride, 0, t), ev.stride,
                       ev.elevationK), One - ev.albedo) +
  FMul(evaluate_spline(ev.dataset, SplineStart(ev.stride, 1, t), ev.stride,
                       ev.elevationK), ev.albedo)

\* C2: for every turbidity, t0 = clamp(floor(turbidity), 1, 10),
\* t1 = min(t0 + 1, 10), tk = clamp(turbidity - t0, 0, 1); so
\* 1 <= t0 <= t1 <= 10, t1 - t0 <= 1, 0 <= tk <= 1, t1 = t0 exactly when
\* t0 = 10, and at turbidity 10 the result is the value of band 10 alone.
C2_TurbidityBands ==
  ev.done =>
    LET t0 == ev.turbidity0
        t1 == ev.turbidity1
        tk == ev.turbidityK
        d  == ev.turbidity - t0 * One
    IN  /\ t0 = (IF Floor(ev.turbidity) < 1 THEN 1
                 ELSE IF Floor(ev.turbidity) > 10 THEN 10
                 ELSE Floor(ev.turbidity))
        /\ t1 = (IF t0 + 1 < 10 THEN t0 + 1 ELSE 10)
        /\ tk = (IF d < 0 THEN 0 ELSE IF d > One THEN One ELSE d)
        /\ 1 <= t0 /\ t0 <= t1 /\ t1 <= 10 /\ t1 - t0 <= 1
        /\ 0 <= tk /\ tk <= One
        /\ (t1 = t0) <=> (t0 = 10)
        /\ ev.turbidity = 10 * One =>
             t0 = 10 /\ t1 = 10 /\ ev.result = BandValue(10)

C2_Witness ==
  /\ ev.done /\ ev.turbidity = 10 * One
  /\ ev.turbidity0 = 10 /\ ev.turbidity1 = 10
  /\ ev.result = BandValue(10) /\ ev.result # 0

\* C3: at a turbidity equal to a band 1..10, for every albedo and elevation,
\* the blend weight is 0 and the result is
\* (1 - albedo) * spline(albedo 0, band) + albedo * spline(albedo 1, band).
C3_BandTurbidity ==
  (ev.done /\ ev.turbidity \in { t * One : t \in 1..10 }) =>
    /\ ev.turbidityK = 0
    /\ ev.turbidity0 * One = ev.turbidity
    /\ ev.result = BandValue(ev.turbidity0)

C3_Witness ==
  /\ ev.done /\ ev.turbidity = 3 * One /\ ev.albedo = One \div 2
  /\ ev.turbidity1 = 4
  /\ ev.result = BandValue(3) /\ ev.result # BandValue(4)

\* The value of the single albedo table a of the call ev, blended by
\* turbidityK alone.
AlbedoValue(a) ==
  FMul(evaluate_spline(ev.dataset, SplineStart(ev.stride, a, ev.turbidity0),
                       ev.stride, ev.elevationK), One - ev.turbidityK) +
  FMul(evaluate_spline(ev.dataset, SplineStart(ev.stride, a, ev.turbidity1),
                       ev.stride, ev.elevationK), ev.turbidityK)

\* C4: with albedo = 0 the result is the blend, by 1 - tk and tk, of the two
\* albedo-0 splines alone, and with albedo = 1 that of the two albedo-1
\* splines alone.
C4_SingleAlbedo ==
  ev.done =>
    /\ ev.albedo = 0 => ev.result = AlbedoValue(0)
    /\ ev.albedo = One => ev.result = AlbedoValue(1)

C4_Witness ==
  /\ ev.done /\ ev.albedo = One /\ ev.turbidityK = One \div 2
  /\ ev.result = AlbedoValue(1) /\ ev.result # AlbedoValue(0)

RECURSIVE Binomial(_, _)
Binomial(n, k) ==
  IF k = 0 \/ k = n THEN 1 ELSE Binomial(n - 1, k - 1) + Binomial(n - 1, k)

RECURSIVE BernsteinSum(_, _, _)
\* Sum over k = 0..n of C(5, k) * (1 - v)^(5 - k) * v^k * P[k].
BernsteinSum(P, v, n) ==
  LET term == FMul(FMul(FMul(Binomial(5, n) * One, powi(One - v, 5 - n)),
                        powi(v, n)), P[n])
  IN  IF n = 0 THEN term ELSE BernsteinSum(P, v, n - 1) + term

\* C5: for every six control points, evaluate_spline is the quintic Bernstein
\* sum with the binomial weights 1,5,10,10,5,1; at parameter 0 it is the
\* first control point and at parameter 1 the last one.
C5_Bernstein ==
  sp.done =>
    /\ sp.result = BernsteinSum(sp.points, sp.value, 5)
    /\ sp.value = 0 => sp.result = sp.points[0]
    /\ sp.value = One => sp.result = sp.points[5]

C5_Witness ==
  /\ sp.done /\ sp.value = One /\ sp.stride = 9
  /\ sp.points[5] # sp.points[0] /\ sp.points[5] # sp.points[4]
  /\ sp.result = sp.points[5]

\* The (albedo table, band) pairs of the call ev.
BandPairs == (0..1) \X {ev.turbidity0, ev.turbidity1}

\* C6 as claimed: every index read from the radiance table is below
\* 2 * 10 * 1 = 20, one control point for each (albedo, band) pair.
C6_AsClaimed ==
  (ev.done /\ ev.slot = 9) =>
    /\ \A idx \in ev.reads : idx < 2 * 10 * 1
    /\ Cardinality(ev.reads) = Cardinality(BandPairs)

\* C6, amended: the radiance table is read as [albedo(2)][turbidity(10)]
\* [controlPoint(6)]: every index read is below 2 * 10 * 6 = 120, and six
\* control points for each (albedo, band) pair are read.
C6_RadianceReads ==
  (ev.done /\ ev.slot = 9) =>
    /\ \A idx \in ev.reads : idx < 2 * 10 * 6
    /\ ev.reads = { (pr[1] * 10 + (pr[2] - 1)) * 6 + k : pr \in BandPairs, k \in 0..5 }
    /\ Cardinality(ev.reads) = 6 * Cardinality(BandPairs)

C6_Witness ==
  /\ ev.done /\ ev.slot = 9 /\ ev.turbidity = TURBIDITY
  /\ 23 \in ev.reads /\ 89 \in ev.reads

\* Whether the scaled values a and b differ by at most 0.45 times the grid
\* distance.
Near(a, b) == Abs(a - b) * One <= 45 * (One \div 100) * FoldGrid

\* C7: the multiplier 0.6 + 0.45 * fold(s) has no jump at s = 1, -1, 2, -2,
\* nor elsewhere: the values at two neighbouring grid points differ by at
\* most 0.45 times their distance.
C7_NoJump ==
  fd.done =>
    /\ fd.sun_amount - FoldGrid > -4 * One =>
         Near(fd.below, fd.normalized_sun_y)
    /\ fd.sun_amount + FoldGrid < 4 * One =>
         Near(fd.above, fd.normalized_sun_y)
    /\ fd.sun_amount \in {One, -One, 2 * One, -2 * One} =>
         Near(fd.below, fd.normalized_sun_y) /\ Near(fd.above, fd.normalized_sun_y)

C7_Witness ==
  /\ fd.done /\ fd.sun_amount = 2 * One
  /\ fd.above = fd.normalized_sun_y /\ fd.below # fd.normalized_sun_y

\* The folding as the claim words it.
Piecewise(s) ==
  IF s > 2 * One THEN 0
  ELSE IF s > One THEN 2 * One - s
  ELSE IF s < -One THEN -2 * One - s
  ELSE s

C9_NightBranchDead ==
  pc = "loop" =>
    /\ ~(sun_amount > 2 * One)
    /\ Abs(sun_dir.y) <= One
    /\ Abs(sun_amount) <= FDiv(One, FRAC_PI_2)
    /\ sun_amount = FDiv(sun_dir.y, FRAC_PI_2)

C9_Witness ==
  /\ pc = "loop" /\ sun.x # 0
  /\ sun_dir.y = One /\ sun_amount = FDiv(One, FRAC_PI_2)

\* C10: for every sun angle the zenith angle is the angle of [0, pi/2] whose
\* cosine is sun_dir.y clamped to [0, 1] (to the last digit), and the spline
\* parameter lies in [0, 1]; with the sun at or below the horizon (y <= 0) the
\* zenith angle is pi/2 and the spline parameter 0, however far below.
C10_ZenithClamped ==
  pc = "loop" =>
    /\ 0 <= sun_theta /\ sun_theta <= FRAC_PI_2
    /\ 0 <= ElevationK(sun_theta) /\ ElevationK(sun_theta) <= One
    /\ sun_dir.y <= 0 => sun_theta = FRAC_PI_2 /\ ElevationK(sun_theta) = 0
    /\ sun_dir.y = One => sun_theta = 0 /\ ElevationK(sun_theta) = One
    /\ Abs(Cos(sun_theta) - clamp(sun_dir.y, 0, One)) <= 1

C10_Witness ==
  /\ pc = "loop" /\ sun_dir.y = -One
  /\ sun_theta = FRAC_PI_2 /\ ElevationK(sun_theta) = 0

C12_PressedOneFrame ==
  \A index \in 0..(MOUSE_BUTTONS_COUNT - 1) :
    /\ was_mouse_pressed(index) <=> since[index] = "press"
    /\ since[index] = "update" => ~was_mouse_pressed(index)
    /\ (is_mouse_down(index) /\ since[index] # "press") =>
         ~was_mouse_pressed(index)
    /\ was_mouse_pressed(index) => is_mouse_down(index)

C12_Witness ==
  /\ is_mouse_down(0) /\ ~was_mouse_pressed(0) /\ since[0] = "update"
  /\ is_mouse_down(2) /\ was_mouse_pressed(2) /\ since[2] = "press"

\* C13: after Camera::new and every sequence of look and walk calls, the
\* vertical angle lies in [MIN_ANGLE, MAX_ANGLE], strictly inside
\* (-pi/2, pi/2); and a walk changes neither angle.
C13_VerticalClamped ==
  /\ MIN_ANGLE <= camera.vertical /\ camera.vertical <= MAX_ANGLE
  /\ -FRAC_PI_2 < camera.vertical /\ camera.vertical < FRAC_PI_2
  /\ called.name = "walk" =>
       /\ camera.vertical = called.vertical
       /\ camera.horizontal = called.horizontal

C13_Witness ==
  /\ called.name = "walk" /\ camera.vertical = MAX_ANGLE
  /\ camera.vertical = called.vertical
  /\ camera.position.y # 0 /\ camera.position.x # 0

\* C14: for every channel, slot offset 0..8, turbidity and sun angle, every
\* index evaluate reads through the slice at the slot offset, with stride 9,
\* is within the slice, and is below 2 * 10 * 6 * 9 = 1080 in the table.
C14_IndicesInTable ==
  (ev.done /\ ev.slot < 9) =>
    /\ ev.stride = 9 /\ ev.dataset.off \in 0..8
    /\ \A r \in ev.reads :
         /\ 0 <= r /\ r < SliceLen(ev.dataset)
         /\ ev.dataset.off + r < 2 * 10 * 6 * 9

C14_Witness ==
  /\ ev.done /\ ev.slot < 9 /\ ev.dataset.off = 8
  /\ ev.turbidity > 10 * One
  /\ (2 * 10 * 6 * 9 - 1) - ev.dataset.off \in ev.reads

\* C15 as claimed: after Camera::new and every sequence of look calls, the
\* horizontal angle lies in [0, 2 pi].
C15_AsClaimed ==
  0 <= camera.horizontal /\ camera.horizontal <= TWO_PI

====
